---- MODULE Spec2Model ----
(***************************************************************************)
(* Model of backend/scripts/transcribe.py: the command-line transcription  *)
(* adapter.  One process run is modelled from the entry point to the exit. *)
(* The two speech backends (faster_whisper, whisper), the filesystem and   *)
(* the environment are the surroundings: every call into them is a step    *)
(* whose outcome (a value, or a raised exception) is chosen with \E.       *)
(*                                                                         *)
(* Python strings are TLA+ strings, dicts are records (a missing key is a  *)
(* missing field), None is the empty tuple and a present value v is <<v>>. *)
(* sys.argv keeps Python's indices through Argv(i).                        *)
(***************************************************************************)
EXTENDS Integers, Sequences, FiniteSets, TLC

VARIABLES
    argv,         \* sys.argv, program name first
    fs,           \* the paths that exist on the filesystem
    environ,      \* os.environ restricted to WHISPER_MODEL: <<>> or <<value>>
    pc,           \* position of the process in the script
    audio_path,   \* transcribe's first parameter (sys.argv[1])
    language,     \* transcribe's second parameter
    model,        \* the constructed primary model: <<>> or <<[size, device, compute_type]>>
    info,         \* faster_whisper's TranscriptionInfo: <<>> or <<[language, duration]>>
    segments,     \* the segment texts the primary backend has yielded so far
    text_parts,   \* the list built by the loop of lines 45-47
    whisper_out,  \* the dict whisper's transcribe returned: <<>> or <<dict>>
    result,       \* transcribe's return value: <<>> or <<dict>>
    stdout,       \* the JSON objects printed, in order
    exitCode,     \* <<>> while running, <<status>> once the process has ended
    trace,        \* every call made into the filesystem and the backends
    raised        \* every exception the backends raised

vars == <<argv, fs, environ, pc, audio_path, language, model, info, segments,
          text_parts, whisper_out, result, stdout, exitCode, trace, raised>>

(***************************************************************************)
(* Bounds of the model.                                                    *)
(***************************************************************************)
MaxArgs == 3
MaxSegments == 2

ArgStrings == {"speech.wav", "fr", ""}
FilesOnDisk == {"speech.wav"}
ModelSizes == {"tiny"}
SegmentTexts == {" Hello ", "a  b\n", " \t"}
WholeTexts == {" Hello world. ", ""}
DetectedLanguages == {"", "de"}
Durations == {0, 3}
ErrorMessages == {"boom", ""}
RaisedClasses == {"ModuleNotFoundError", "ImportError", "RuntimeError"}

None == <<>>
Some(v) == <<v>>

(***************************************************************************)
(* Python's exception hierarchy, as far as the handlers look at it.        *)
(***************************************************************************)
ParentClass ==
    [c \in {"ModuleNotFoundError", "ImportError", "RuntimeError", "Exception",
            "KeyboardInterrupt"} |->
        CASE c = "ModuleNotFoundError" -> "ImportError"
          [] c = "ImportError"         -> "Exception"
          [] c = "RuntimeError"        -> "Exception"
          [] c = "Exception"           -> "BaseException"
          [] c = "KeyboardInterrupt"   -> "BaseException"]

RECURSIVE IsInstance(_, _)
IsInstance(cls, of) ==
    IF cls = of THEN TRUE
    ELSE IF cls \in DOMAIN ParentClass THEN IsInstance(ParentClass[cls], of)
    ELSE FALSE

Errors == [cls : RaisedClasses, msg : ErrorMessages]

(***************************************************************************)
(* str.strip() and str.join().                                             *)
(***************************************************************************)
Whitespace == {" ", "\t", "\n", "\r"}

RECURSIVE LStrip(_)
LStrip(s) ==
    IF Len(s) > 0 /\ SubSeq(s, 1, 1) \in Whitespace
    THEN LStrip(SubSeq(s, 2, Len(s)))
    ELSE s

RECURSIVE RStrip(_)
RStrip(s) ==
    IF Len(s) > 0 /\ SubSeq(s, Len(s), Len(s)) \in Whitespace
    THEN RStrip(SubSeq(s, 1, Len(s) - 1))
    ELSE s

\* variant: only the leading whitespace is removed
Strip_LeadingOnly(s) == LStrip(s)

Strip(s) == RStrip(LStrip(s))

RECURSIVE Join(_, _)
Join(sep, parts) ==
    IF Len(parts) = 0 THEN ""
    ELSE IF Len(parts) = 1 THEN parts[1]
    ELSE parts[1] \o sep \o Join(sep, Tail(parts))

(***************************************************************************)
(* The entry point's reading of the command line (lines 87-92).            *)
(***************************************************************************)
Argv(i) == argv[i + 1]

\* variant: the language is read one argument too late
ResolveLanguage_OffByOne == IF Len(argv) > 3 THEN Argv(2) ELSE "en"

ResolveLanguage == IF Len(argv) > 2 THEN Argv(2) ELSE "en"

\* variant: the usage object carries an empty text like transcribe's failures
UsageError_WithText ==
    [success |-> FALSE, error |-> "Usage: transcribe.py <audio_file> [language]",
     text |-> ""]

UsageError ==
    [success |-> FALSE, error |-> "Usage: transcribe.py <audio_file> [language]"]

FileNotFoundError(path) ==
    [success |-> FALSE, error |-> "File not found: " \o path]

(***************************************************************************)
(* The dicts transcribe returns (lines 51-56, 66-70, 72-76, 79-83).        *)
(***************************************************************************)
BeamSize == 5

PrimaryLanguageArg(lang) == IF lang # "" THEN Some(lang) ELSE None

PrimarySuccess(parts, inf, lang) ==
    [success  |-> TRUE,
     text     |-> Join(" ", parts),
     language |-> IF inf.language # None /\ inf.language[1] # ""
                  THEN inf.language[1] ELSE lang,
     duration |-> inf.duration]

\* variant: an empty language is replaced by the default
SecondaryLanguageArg_Defaulted(lang) == IF lang # "" THEN lang ELSE "en"

SecondaryLanguageArg(lang) == lang

SecondarySuccess(out, lang) ==
    [success  |-> TRUE,
     text     |-> Strip(out.text),
     language |-> IF "language" \in DOMAIN out THEN out.language ELSE lang]

\* variant: the fallback's failure carries the bare message
SecondaryFailure_NoPrefix(e) ==
    [success |-> FALSE, error |-> e.msg, text |-> ""]

SecondaryFailure(e) ==
    [success |-> FALSE, error |-> "Whisper not available: " \o e.msg, text |-> ""]

PrimaryFailure(e) ==
    [success |-> FALSE, error |-> e.msg, text |-> ""]

Init ==
    /\ argv \in {<<"transcribe.py">> \o a :
                    a \in UNION {[1..n -> ArgStrings] : n \in 0..MaxArgs}}
    /\ fs \in SUBSET FilesOnDisk
    /\ environ \in {None} \cup {Some(m) : m \in ModelSizes}
    /\ pc = "main"
    /\ audio_path = None
    /\ language = None
    /\ model = None
    /\ info = None
    /\ segments = <<>>
    /\ text_parts = <<>>
    /\ whisper_out = None
    /\ result = None
    /\ stdout = <<>>
    /\ exitCode = None
    /\ trace = <<>>
    /\ raised = <<>>

(***************************************************************************)
(* Entry point, lines 86-99.                                               *)
(***************************************************************************)
MainUsage ==
    /\ pc = "main"
    /\ Len(argv) < 2
    /\ stdout' = Append(stdout, UsageError)
    /\ exitCode' = Some(1)
    /\ pc' = "exited"
    /\ UNCHANGED <<argv, fs, environ, audio_path, language, model, info, segments,
                   text_parts, whisper_out, result, trace, raised>>

MainFileNotFound ==
    /\ pc = "main"
    /\ ~(Len(argv) < 2)
    /\ ~(Argv(1) \in fs)
    /\ trace' = Append(trace, [ev |-> "exists", path |-> Argv(1)])
    /\ stdout' = Append(stdout, FileNotFoundError(Argv(1)))
    /\ exitCode' = Some(1)
    /\ pc' = "exited"
    /\ UNCHANGED <<argv, fs, environ, audio_path, language, model, info, segments,
                   text_parts, whisper_out, result, raised>>

\* variant: transcribe is called without the existence check
MainCallTranscribe_NoExistsCheck ==
    /\ pc = "main"
    /\ ~(Len(argv) < 2)
    /\ audio_path' = Some(Argv(1))
    /\ language' = Some(ResolveLanguage)
    /\ pc' = "import_faster_whisper"
    /\ UNCHANGED <<argv, fs, environ, model, info, segments, text_parts,
                   whisper_out, result, stdout, exitCode, trace, raised>>

MainCallTranscribe ==
    /\ pc = "main"
    /\ ~(Len(argv) < 2)
    /\ Argv(1) \in fs
    /\ trace' = Append(trace, [ev |-> "exists", path |-> Argv(1)])
    /\ audio_path' = Some(Argv(1))
    /\ language' = Some(ResolveLanguage)
    /\ pc' = "import_faster_whisper"
    /\ UNCHANGED <<argv, fs, environ, model, info, segments, text_parts,
                   whisper_out, result, stdout, exitCode, raised>>

MainPrint ==
    /\ pc = "return"
    /\ stdout' = Append(stdout, result[1])
    /\ exitCode' = Some(0)
    /\ pc' = "exited"
    /\ UNCHANGED <<argv, fs, environ, audio_path, language, model, info, segments,
                   text_parts, whisper_out, result, trace, raised>>

(***************************************************************************)
(* The handlers of transcribe's outer try (lines 58 and 78) and of the     *)
(* fallback's try (line 71): where control goes when a step raises e.      *)
(***************************************************************************)
\* variant: the outer try has no "except Exception" clause
CatchPrimary_ImportErrorOnly(e) ==
    IF IsInstance(e.cls, "ImportError")
    THEN /\ pc' = "import_whisper"
         /\ UNCHANGED <<result, exitCode>>
    ELSE /\ pc' = "exited"
         /\ exitCode' = Some(1)
         /\ UNCHANGED result

\* variant: the fallback is entered on any exception of the primary branch
CatchPrimary_FallbackOnAnyError(e) ==
    IF IsInstance(e.cls, "Exception")
    THEN /\ pc' = "import_whisper"
         /\ UNCHANGED <<result, exitCode>>
    ELSE /\ pc' = "exited"
         /\ exitCode' = Some(1)
         /\ UNCHANGED result

CatchPrimary(e) ==
    IF IsInstance(e.cls, "ImportError")
    THEN /\ pc' = "import_whisper"
         /\ UNCHANGED <<result, exitCode>>
    ELSE IF IsInstance(e.cls, "Exception")
    THEN /\ result' = Some(PrimaryFailure(e))
         /\ pc' = "return"
         /\ UNCHANGED exitCode
    ELSE /\ pc' = "exited"
         /\ exitCode' = Some(1)
         /\ UNCHANGED result

CatchSecondary(e) ==
    IF IsInstance(e.cls, "Exception")
    THEN /\ result' = Some(SecondaryFailure(e))
         /\ pc' = "return"
         /\ UNCHANGED exitCode
    ELSE /\ pc' = "exited"
         /\ exitCode' = Some(1)
         /\ UNCHANGED result

Raise(backend, stage, e) ==
    raised' = Append(raised, [backend |-> backend, stage |-> stage,
                              cls |-> e.cls, msg |-> e.msg])

(***************************************************************************)
(* transcribe, primary branch: lines 15-56.                                *)
(***************************************************************************)
TorchProbes == {"no_torch", "mps", "no_mps", "probe_raises"}

Device(probe) == IF probe = "mps" THEN "cpu" ELSE "cpu"

ComputeType(probe) == IF probe = "mps" THEN "int8" ELSE "int8"

ModelSize == IF environ # None THEN environ[1] ELSE "base"

ImportFasterWhisper ==
    /\ pc = "import_faster_whisper"
    /\ trace' = Append(trace, [ev |-> "import", lib |-> "faster_whisper"])
    /\ \/ /\ pc' = "construct"
          /\ UNCHANGED <<result, exitCode, raised>>
       \/ \E e \in Errors :
             /\ Raise("primary", "import", e)
             /\ CatchPrimary(e)
    /\ UNCHANGED <<argv, fs, environ, audio_path, language, model, info, segments,
                   text_parts, whisper_out, stdout>>

ConstructModel ==
    /\ pc = "construct"
    /\ \E probe \in TorchProbes :
          /\ trace' = Append(trace, [ev |-> "WhisperModel", model_size |-> ModelSize,
                                     device |-> Device(probe),
                                     compute_type |-> ComputeType(probe)])
          /\ \/ /\ model' = Some([model_size |-> ModelSize, device |-> Device(probe),
                                  compute_type |-> ComputeType(probe)])
                /\ pc' = "transcribe"
                /\ UNCHANGED <<result, exitCode, raised>>
             \/ \E e \in Errors :
                   /\ Raise("primary", "construct", e)
                   /\ CatchPrimary(e)
                   /\ UNCHANGED model
    /\ UNCHANGED <<argv, fs, environ, audio_path, language, info, segments,
                   text_parts, whisper_out, stdout>>

Infos == [language : {None} \cup {Some(l) : l \in DetectedLanguages},
          duration : Durations]

PrimaryTranscribe ==
    /\ pc = "transcribe"
    /\ trace' = Append(trace, [ev |-> "faster_whisper.transcribe",
                               audio |-> audio_path[1],
                               language |-> PrimaryLanguageArg(language[1]),
                               beam_size |-> BeamSize,
                               word_timestamps |-> FALSE,
                               vad_filter |-> TRUE])
    /\ \/ \E i \in Infos :
             /\ info' = Some(i)
             /\ pc' = "segments"
             /\ UNCHANGED <<result, exitCode, raised>>
       \/ \E e \in Errors :
             /\ Raise("primary", "transcribe", e)
             /\ CatchPrimary(e)
             /\ UNCHANGED info
    /\ UNCHANGED <<argv, fs, environ, audio_path, language, model, segments,
                   text_parts, whisper_out, stdout>>

NextSegment ==
    /\ pc = "segments"
    /\ \/ /\ Len(segments) < MaxSegments
          /\ \E s \in SegmentTexts :
                /\ segments' = Append(segments, s)
                /\ text_parts' = Append(text_parts, Strip(s))
          /\ UNCHANGED <<pc, result, exitCode, raised>>
       \/ /\ result' = Some(PrimarySuccess(text_parts, info[1], language[1]))
          /\ pc' = "return"
          /\ UNCHANGED <<segments, text_parts, exitCode, raised>>
       \/ \E e \in Errors :
             /\ Raise("primary", "segments", e)
             /\ CatchPrimary(e)
             /\ UNCHANGED <<segments, text_parts>>
    /\ UNCHANGED <<argv, fs, environ, audio_path, language, model, info,
                   whisper_out, stdout, trace>>

(***************************************************************************)
(* transcribe, fallback branch: lines 59-76.                               *)
(***************************************************************************)
ImportWhisper ==
    /\ pc = "import_whisper"
    /\ trace' = Append(trace, [ev |-> "import", lib |-> "whisper"])
    /\ \/ /\ pc' = "load_model"
          /\ UNCHANGED <<result, exitCode, raised>>
       \/ \E e \in Errors :
             /\ Raise("secondary", "import", e)
             /\ CatchSecondary(e)
    /\ UNCHANGED <<argv, fs, environ, audio_path, language, model, info, segments,
                   text_parts, whisper_out, stdout>>

LoadModel ==
    /\ pc = "load_model"
    /\ trace' = Append(trace, [ev |-> "whisper.load_model", name |-> "base"])
    /\ \/ /\ pc' = "whisper_transcribe"
          /\ UNCHANGED <<result, exitCode, raised>>
       \/ \E e \in Errors :
             /\ Raise("secondary", "load_model", e)
             /\ CatchSecondary(e)
    /\ UNCHANGED <<argv, fs, environ, audio_path, language, model, info, segments,
                   text_parts, whisper_out, stdout>>

WhisperResults ==
    [text : WholeTexts] \cup [text : WholeTexts, language : DetectedLanguages]

SecondaryTranscribe ==
    /\ pc = "whisper_transcribe"
    /\ trace' = Append(trace, [ev |-> "whisper.transcribe",
                               audio |-> audio_path[1],
                               language |-> SecondaryLanguageArg(language[1])])
    /\ \/ \E out \in WhisperResults :
             /\ whisper_out' = Some(out)
             /\ result' = Some(SecondarySuccess(out, language[1]))
             /\ pc' = "return"
             /\ UNCHANGED <<exitCode, raised>>
       \/ \E e \in Errors :
             /\ Raise("secondary", "transcribe", e)
             /\ CatchSecondary(e)
             /\ UNCHANGED whisper_out
    /\ UNCHANGED <<argv, fs, environ, audio_path, language, model, info, segments,
                   text_parts, stdout>>

Next ==
    \/ MainUsage
    \/ MainFileNotFound
    \/ MainCallTranscribe
    \/ ImportFasterWhisper
    \/ ConstructModel
    \/ PrimaryTranscribe
    \/ NextSegment
    \/ ImportWhisper
    \/ LoadModel
    \/ SecondaryTranscribe
    \/ MainPrint

Spec == Init /\ [][Next]_vars

TypeOK ==
    /\ pc \in {"main", "import_faster_whisper", "construct", "transcribe", "segments",
               "import_whisper", "load_model", "whisper_transcribe", "return", "exited"}
    /\ Len(stdout) <= 1
    /\ exitCode \in {None, Some(0), Some(1)}

(***************************************************************************)
(* Vocabulary of the properties.                                           *)
(***************************************************************************)
Events(name) == {i \in DOMAIN trace : trace[i].ev = name}

BackendEvents == {i \in DOMAIN trace : trace[i].ev # "exists"}

SecondaryEvents ==
    {i \in DOMAIN trace :
        \/ trace[i].ev \in {"whisper.load_model", "whisper.transcribe"}
        \/ trace[i].ev = "import" /\ trace[i].lib = "whisper"}

InferenceCalls == Events("faster_whisper.transcribe") \cup Events("whisper.transcribe")

NoArguments == Len(argv) < 2

MissingFile == Len(argv) >= 2 /\ argv[2] \notin fs

PassedPreflight == Len(argv) >= 2 /\ argv[2] \in fs

RequestedLanguage == IF Len(argv) = 2 THEN "en" ELSE argv[3]

Returned == pc \in {"return", "exited"}

\* the primary library is absent: its import statement raised an ImportError
PrimaryAbsent ==
    \E i \in DOMAIN raised :
        /\ raised[i].backend = "primary"
        /\ raised[i].stage = "import"
        /\ raised[i].cls \in {"ImportError", "ModuleNotFoundError"}

\* the primary branch ran to its return statement
PrimarySucceeded == Returned /\ info # None /\ raised = <<>>

AllWhitespace(s) == \A i \in 1..Len(s) : SubSeq(s, i, i) \in Whitespace

\* t is s without its leading and trailing whitespace
IsTrimOf(t, s) ==
    \E i \in 1..(Len(s) + 1) : \E j \in (i - 1)..Len(s) :
        /\ t = SubSeq(s, i, j)
        /\ AllWhitespace(SubSeq(s, 1, i - 1))
        /\ AllWhitespace(SubSeq(s, j + 1, Len(s)))
        /\ i <= j => /\ SubSeq(s, i, i) \notin Whitespace
                     /\ SubSeq(s, j, j) \notin Whitespace

Trimmed(s) ==
    CHOOSE t \in UNION {{SubSeq(s, i, j) : j \in (i - 1)..Len(s)} :
                                                i \in 1..(Len(s) + 1)} :
        IsTrimOf(t, s)

\* the trimmed texts of segs, in order, with one space between neighbours
RECURSIVE SpaceJoined(_)
SpaceJoined(segs) ==
    IF Len(segs) = 0 THEN ""
    ELSE IF Len(segs) = 1 THEN Trimmed(segs[1])
    ELSE SpaceJoined(SubSeq(segs, 1, Len(segs) - 1)) \o " " \o Trimmed(segs[Len(segs)])

(***************************************************************************)
(* C1: whenever the primary library imported and a later primary step      *)
(* (model construction, the transcribe call, the consumption of the        *)
(* segments) raised an error, the secondary backend is never imported or   *)
(* called and transcribe returns success=false, error=the raised message,  *)
(* text="".                                                                *)
(***************************************************************************)
C1_PrimaryFailureNeverFallsBack ==
    \A i \in DOMAIN raised :
        (raised[i].backend = "primary" /\ raised[i].stage # "import") =>
            /\ SecondaryEvents = {}
            /\ pc \notin {"import_whisper", "load_model", "whisper_transcribe"}
            /\ Returned => result = Some([success |-> FALSE,
                                          error |-> raised[i].msg,
                                          text |-> ""])

(***************************************************************************)
(* C2: when the audio path does not exist, nothing but the existence check *)
(* ever happens (no import, no model, no inference), and the process ends  *)
(* having printed the file-not-found object with the path as given, with   *)
(* status 1.                                                               *)
(***************************************************************************)
C2_MissingFileTouchesNoBackend ==
    MissingFile =>
        /\ BackendEvents = {}
        /\ model = None /\ info = None /\ whisper_out = None /\ result = None
        /\ pc \in {"main", "exited"}
        /\ pc = "exited" =>
              /\ stdout = <<[success |-> FALSE,
                             error |-> "File not found: " \o argv[2]]>>
              /\ exitCode = Some(1)

C2_Witness ==
    /\ MissingFile
    /\ pc = "exited"
    /\ argv[2] = "speech.wav"
    /\ Len(stdout) = 1

(***************************************************************************)
(* C3: every object written to standard output has a text field, has an    *)
(* error field exactly when success is false, and has text = "" when       *)
(* success is false.                                                       *)
(***************************************************************************)
C3_EveryOutputConforms ==
    \A i \in DOMAIN stdout :
        /\ "text" \in DOMAIN stdout[i]
        /\ ("error" \in DOMAIN stdout[i]) <=> ~stdout[i].success
        /\ ~stdout[i].success => stdout[i].text = ""

(***************************************************************************)
(* C4: a run that passed both pre-flight checks ends with exactly one      *)
(* object printed (transcribe's result) and status 0, whatever the         *)
(* backends raised; status 1 occurs only on the two pre-flight exits.      *)
(***************************************************************************)
C4_BackendErrorsEndWithStatusZero ==
    /\ (PassedPreflight /\ pc = "exited") =>
          /\ exitCode = Some(0)
          /\ result # None
          /\ stdout = <<result[1]>>
    /\ exitCode = Some(1) =>
          /\ NoArguments \/ MissingFile
          /\ raised = <<>>
    /\ (PassedPreflight /\ pc # "exited") => exitCode = None /\ stdout = <<>>

C4_Witness ==
    /\ PassedPreflight
    /\ pc = "exited"
    /\ exitCode = Some(0)
    /\ Len(raised) = 2
    /\ raised[2].backend = "secondary"
    /\ raised[2].cls = "RuntimeError"

C6_SecondaryFailureMessage ==
    \A i \in DOMAIN raised :
        (PrimaryAbsent /\ raised[i].backend = "secondary") =>
            /\ Returned
            /\ result = Some([success |-> FALSE,
                              text |-> "",
                              error |-> "Whisper not available: " \o raised[i].msg])
            /\ pc = "exited" => exitCode = Some(0) /\ stdout = <<result[1]>>

C6_Witness ==
    /\ PrimaryAbsent
    /\ pc = "exited"
    /\ Len(raised) = 2
    /\ raised[2] = [backend |-> "secondary", stage |-> "transcribe",
                    cls |-> "RuntimeError", msg |-> "boom"]

(***************************************************************************)
(* C7: when the primary branch succeeds, the result's text is the trimmed  *)
(* texts of the yielded segments, in the order yielded, with one space     *)
(* between neighbours ("" for no segment), and its duration is the one the *)
(* backend reported.                                                       *)
(***************************************************************************)
C7_TextIsSpaceJoinedTrimmedSegments ==
    PrimarySucceeded =>
        /\ result # None
        /\ result[1].success
        /\ result[1].text = SpaceJoined(segments)
        /\ "duration" \in DOMAIN result[1]
        /\ result[1].duration = info[1].duration

C7_Witness ==
    /\ PrimarySucceeded
    /\ pc = "exited"
    /\ segments = <<" Hello ", "a  b\n">>
    /\ stdout[1].text = "Hello a  b"
    /\ stdout[1].duration = 3

(***************************************************************************)
(* C8: with no argument after the program name, the process touches        *)
(* neither the filesystem nor a backend, and ends having printed the fixed *)
(* usage object, with status 1.                                            *)
(***************************************************************************)
C8_UsageError ==
    NoArguments =>
        /\ trace = <<>>
        /\ raised = <<>>
        /\ result = None
        /\ pc \in {"main", "exited"}
        /\ pc = "exited" =>
              /\ stdout = <<[success |-> FALSE,
                             error |-> "Usage: transcribe.py <audio_file> [language]"]>>
              /\ exitCode = Some(1)

C8_Witness ==
    /\ NoArguments
    /\ pc = "exited"
    /\ Len(stdout) = 1

(***************************************************************************)
(* C9: the request handed to transcribe is (first argument, "en") when one *)
(* argument is given and (first argument, second argument as given)        *)
(* otherwise; nothing handed to a backend comes from a later argument.     *)
(***************************************************************************)
C9_LanguageResolution ==
    language # None =>
        /\ Len(argv) = 2 => language = Some("en")
        /\ Len(argv) > 2 => language = Some(argv[3])
        /\ audio_path = Some(argv[2])
        /\ \A i \in InferenceCalls : trace[i].audio = argv[2]
        /\ \A i \in Events("whisper.transcribe") : trace[i].language = language[1]
        /\ \A i \in Events("faster_whisper.transcribe") :
              trace[i].language \in {None, language}

C9_Witness ==
    /\ pc = "exited"
    /\ Len(argv) = 4
    /\ argv[3] = ""
    /\ argv[4] = "fr"
    /\ language = Some("")
    /\ InferenceCalls # {}

====
